---- MODULE Spec2Model ----
(***************************************************************************)
(* The PKI backend's issuer/<ref>/resign-crls operation                    *)
(* (builtin/logical/pki/path_resign_crls.go): decode the supplied PEM      *)
(* CRLs, fetch the issuer, verify every CRL against the issuer's key,      *)
(* merge the revoked certificates, build and sign a new CRL, encode it.    *)
(***************************************************************************)
EXTENDS Integers, Sequences, FiniteSets, TLC

VARIABLES
    req,           \* the request's field data (framework.FieldData)
    pc,            \* position of pathUpdateResignCrlsHandler
    cancelled,     \* whether the caller's ctx has been cancelled
    providedCrls,  \* handler local: the decoded CRLs (None before decoding)
    issuerId,      \* getCaBundle local: the resolved issuer id (None before)
    caBundle,      \* handler local: the issuer's CAInfoBundle (None before)
    revokedCerts,  \* handler local: merged entries (None before merging)
    warnings,      \* handler local: the merge's warnings
    template,      \* handler local: the x509.RevocationList template
    crlBytes,      \* handler local: the signed CRL (None before signing)
    resp           \* what the handler returned: (*logical.Response, error)

vars == <<req, pc, cancelled, providedCrls, issuerId, caBundle, revokedCerts, warnings,
          template, crlBytes, resp>>

----------------------------------------------------------------------------
(* Bounds of the model.                                                    *)

\* At most this many strings in the crls field.
MaxCrls == 2
\* At most this many revoked entries over all CRLs of one merge input.
MaxEntries == 4
\* At most this many tokens (blocks, runs of other bytes) in one CRL string.
MaxTokens == 2

----------------------------------------------------------------------------
(* Values.                                                                 *)

\* A nil pointer / unset local is the empty sequence, a set one <<v>>.
None == <<>>
Some(v) == <<v>>

Range(s) == {s[i] : i \in DOMAIN s}

SeqsUpTo(S, n) == UNION {[1..k -> S] : k \in 0..n}

Min(S) == CHOOSE x \in S : \A y \in S : x <= y

\* An error or warning text: the format string, the index it names (-1 when
\* it names none) and its string argument.
Msg(text, index, arg) == [text |-> text, index |-> index, arg |-> arg]

Serials == {7, 12}
Times == {1, 2}

\* pkix.RevokedCertificate.  The entries of the input CRLs: every serial at
\* every time without extensions, and one entry that carries an extension.
RevokedCertificate(serial, time, exts) ==
    [SerialNumber |-> serial, RevocationTime |-> time, Extensions |-> exts]

InputCerts ==
    {RevokedCertificate(s, t, <<>>) : s \in Serials, t \in Times}
        \cup {RevokedCertificate(7, 1, <<"reasonCode">>)}

\* The issuer keys: the requested issuer's, and somebody else's.
IssuerKey == "issuer-key"
OtherKey == "other-key"

\* The payload of a PEM block (DER bytes): a well-formed revocation list
\* signed by Signer, or bytes that are no revocation list.
CrlPayload(signer, certs) ==
    [wellFormed |-> TRUE, Signer |-> signer, RevokedCertificates |-> certs]

MalformedPayload ==
    [wellFormed |-> FALSE, Signer |-> "", RevokedCertificates |-> <<>>]

\* x509.RevocationList as parsed: who signed it and its entries.
RevocationList(signer, certs) ==
    [Signer |-> signer, RevokedCertificates |-> certs]

\* A CRL string is a sequence of tokens: a PEM block, or a run of bytes that
\* belong to no PEM block.
PemBlock(payload) == [isBlock |-> TRUE, Bytes |-> payload]
OtherBytes == [isBlock |-> FALSE, Bytes |-> MalformedPayload]

----------------------------------------------------------------------------
(* The pure functions of the file.                                         *)

DigitChars == <<"0", "1", "2", "3", "4", "5", "6", "7", "8", "9">>

\* serialFromBigInt: the canonical string form of a serial number.
RECURSIVE serialFromBigInt(_)
serialFromBigInt(n) ==
    IF n < 10 THEN <<DigitChars[n + 1]>>
    ELSE Append(serialFromBigInt(n \div 10), DigitChars[(n % 10) + 1])

\* time.Time.Equal and time.Time.After on revocation times.
TimeEqual_AlwaysDiffer(a, b) == FALSE
TimeEqual(a, b) == a = b

TimeAfter_Before(a, b) == a < b
TimeAfter(a, b) == a > b

\* uniqueCert[serial] = cert
MapPut(m, k, v) == [x \in (DOMAIN m) \cup {k} |-> IF x = k THEN v ELSE m[x]]

EmptyMap == [x \in {} |-> 0]

DuplicateWarning(serial) ==
    Msg("Duplicate serial %s with different revocation times detected, using oldest revocation time",
        -1, serial)

\* The mutant: a warning only when the new entry replaces the kept one.
mergeCert_WarnOnReplace(acc, cert) ==
    LET serial == serialFromBigInt(cert.SerialNumber)
        curCert == [cert EXCEPT !.Extensions = <<>>]
    IN  IF serial \notin DOMAIN acc.uniqueCert
        THEN [acc EXCEPT !.uniqueCert = MapPut(@, serial, curCert)]
        ELSE LET existingCert == acc.uniqueCert[serial]
             IN  IF existingCert.RevocationTime > curCert.RevocationTime
                 THEN [uniqueCert |-> MapPut(acc.uniqueCert, serial, curCert),
                       warnings |-> Append(acc.warnings, DuplicateWarning(serial))]
                 ELSE acc

\* The body of getAllRevokedCerts' inner loop: one entry of one CRL.
mergeCert(acc, cert) ==
    LET serial == serialFromBigInt(cert.SerialNumber)
        curCert == [cert EXCEPT !.Extensions = <<>>]
    IN  IF serial \notin DOMAIN acc.uniqueCert
        THEN [acc EXCEPT !.uniqueCert = MapPut(@, serial, curCert)]
        ELSE LET existingCert == acc.uniqueCert[serial]
             IN  IF TimeEqual(existingCert.RevocationTime, curCert.RevocationTime)
                 THEN acc
                 ELSE [uniqueCert |->
                           IF TimeAfter(existingCert.RevocationTime,
                                        curCert.RevocationTime)
                           THEN MapPut(acc.uniqueCert, serial, curCert)
                           ELSE acc.uniqueCert,
                       warnings |-> Append(acc.warnings, DuplicateWarning(serial))]

RECURSIVE mergeCerts(_, _)
mergeCerts(acc, certs) ==
    IF certs = <<>> THEN acc
    ELSE mergeCerts(mergeCert(acc, Head(certs)), Tail(certs))

RECURSIVE mergeCrls(_, _)
mergeCrls(acc, crls) ==
    IF crls = <<>> THEN acc
    ELSE mergeCrls(mergeCerts(acc, Head(crls).RevokedCertificates), Tail(crls))

\* The orders in which ranging over the map can emit its values.
MapOrders(m) ==
    LET n == Cardinality(DOMAIN m)
        keyOrders == {f \in [1..n -> DOMAIN m] : \A i, j \in 1..n : f[i] = f[j] => i = j}
    IN  {[i \in 1..n |-> m[f[i]]] : f \in keyOrders}

\* getAllRevokedCerts: the map and warnings after the loops; the returned
\* slice is one of MapOrders(uniqueCert); the error is always nil.
getAllRevokedCerts(crls) ==
    LET out == mergeCrls([uniqueCert |-> EmptyMap, warnings |-> <<>>], crls)
    IN  [uniqueCert |-> out.uniqueCert, warnings |-> out.warnings, err |-> None]

----------------------------------------------------------------------------
(* Decoding.                                                               *)

\* encoding/pem.Decode: the first PEM block of the data, bytes before it
\* skipped, and what follows it; no block and the whole data when the data
\* holds none.
pemDecode(data) ==
    LET blocks == {i \in DOMAIN data : data[i].isBlock}
    IN  IF blocks = {}
        THEN [block |-> None, rest |-> data]
        ELSE [block |-> Some(data[Min(blocks)]),
              rest |-> SubSeq(data, Min(blocks) + 1, Len(data))]

\* x509.ParseRevocationList
ParseRevocationList(der) ==
    IF der.wellFormed
    THEN [crl |-> Some(RevocationList(der.Signer, der.RevokedCertificates)),
          err |-> None]
    ELSE [crl |-> None, err |-> Some(Msg("x509: malformed crl", -1, <<>>))]

\* decodePemCrl.  panic: block is nil and block.Bytes is read.
decodePemCrl(crl) ==
    LET d == pemDecode(crl)
    IN  IF Len(d.rest) # 0
        THEN [crl |-> None, panic |-> FALSE,
              err |-> Some(Msg("invalid crl; should be one PEM block only", -1, <<>>))]
        ELSE IF d.block = None
        THEN [crl |-> None, panic |-> TRUE, err |-> None]
        ELSE LET parsed == ParseRevocationList(d.block[1].Bytes)
             IN  [crl |-> parsed.crl, panic |-> FALSE, err |-> parsed.err]

\* decodePemCrls' loop from (0-based) index i on, crls decoded so far.
RECURSIVE decodePemCrlsFrom(_, _, _)
decodePemCrlsFrom(rawCrls, i, crls) ==
    IF i >= Len(rawCrls)
    THEN [crls |-> crls, panic |-> FALSE, err |-> None]
    ELSE LET one == decodePemCrl(rawCrls[i + 1])
         IN  IF one.panic
             THEN [crls |-> <<>>, panic |-> TRUE, err |-> None]
             ELSE IF one.err # None
             THEN [crls |-> <<>>, panic |-> FALSE,
                   err |-> Some(Msg("failed decoding crl %d: %w", i,
                                    <<one.err[1].text>>))]
             ELSE decodePemCrlsFrom(rawCrls, i + 1, Append(crls, one.crl[1]))

decodePemCrls(rawCrls) == decodePemCrlsFrom(rawCrls, 0, <<>>)

----------------------------------------------------------------------------
(* Format, verification, encoding.                                         *)

UpperChars == <<"P", "E", "M", "D", "R">>
LowerChars == <<"p", "e", "m", "d", "r">>

\* strings.ToLower on a string given as its characters (the upper-case
\* letters of the model's format strings).
ToLower(s) ==
    [i \in DOMAIN s |->
        IF \E k \in DOMAIN UpperChars : UpperChars[k] = s[i]
        THEN LowerChars[CHOOSE k \in DOMAIN UpperChars : UpperChars[k] = s[i]]
        ELSE s[i]]

Pem == <<"p", "e", "m">>
Der == <<"d", "e", "r">>

\* The mutant: a switch without its default case.
getCrlFormat_NoDefault(requestedValue) ==
    [format |-> ToLower(requestedValue), err |-> None]

\* getCrlFormat
getCrlFormat(requestedValue) ==
    LET format == ToLower(requestedValue)
    IN  IF format = Pem \/ format = Der
        THEN [format |-> format, err |-> None]
        ELSE [format |-> <<>>,
              err |-> Some(Msg("unknown format value of %s", -1, requestedValue))]

\* x509.RevocationList.CheckSignatureFrom
CheckSignatureFrom(crl, caCert) == crl.Signer = caCert.PublicKey

NotSignedByIssuer(i) ==
    Msg("CRL index: %d was not signed by requested issuer", i, <<>>)

\* verifyCrlsAreFromIssuersKey's loop from (0-based) index i on.
RECURSIVE verifyFrom(_, _, _)
verifyFrom(caCert, crls, i) ==
    IF i >= Len(crls) THEN None
    ELSE IF ~CheckSignatureFrom(crls[i + 1], caCert)
    THEN Some(NotSignedByIssuer(i))
    ELSE verifyFrom(caCert, crls, i + 1)

\* The mutant: the loop returns after its first iteration.
verifyCrlsAreFromIssuersKey_FirstOnly(caCert, crls) ==
    IF crls # <<>> /\ ~CheckSignatureFrom(crls[1], caCert)
    THEN Some(NotSignedByIssuer(0))
    ELSE None

\* verifyCrlsAreFromIssuersKey
verifyCrlsAreFromIssuersKey(caCert, crls) == verifyFrom(caCert, crls, 0)

\* encodeResponse: base64 of the bytes, or one PEM block of type X509 CRL.
encodeResponse(bytes, derFormatRequested) ==
    IF derFormatRequested
    THEN [encoding |-> "base64", Type |-> "", Bytes |-> bytes]
    ELSE [encoding |-> "pem", Type |-> "X509 CRL", Bytes |-> bytes]

----------------------------------------------------------------------------
(* The request and the responses.                                          *)

\* logical.ErrorResponse(text), nil: a response whose data holds the error.
ErrorResponse(msg) ==
    [response |-> Some([Warnings |-> <<>>, Data |-> [k \in {"error"} |-> msg]]),
     err |-> None]

\* nil, fmt.Errorf(...)
InternalError(msg) == [response |-> None, err |-> Some(msg)]

\* &logical.Response{Warnings: warnings, Data: {"crl": body}}, nil
CrlResponse(warns, body) ==
    [response |-> Some([Warnings |-> warns, Data |-> [k \in {"crl"} |-> body]]),
     err |-> None]

NotReturned == [response |-> None, err |-> None]

\* data.Get(crlsParam).([]string)
GetCrls(data) == data.crls

\* getIssuerRef(data)
getIssuerRef(data) == data.issuer_ref

\* time.ParseDuration, in hours, on the duration strings of the model.
ParseDuration(s) ==
    CASE s = "72h" -> [d |-> 72, err |-> None]
      [] s = "1h" -> [d |-> 1, err |-> None]
      [] s = "0s" -> [d |-> 0, err |-> None]
      [] s = "-1h" -> [d |-> -1, err |-> None]
      [] OTHER -> [d |-> 0, err |-> Some(Msg("time: invalid duration %q", -1, <<s>>))]

\* The CRL strings of the handler's requests.
CrlA == CrlPayload(IssuerKey, <<RevokedCertificate(7, 1, <<>>)>>)
CrlB == CrlPayload(IssuerKey, <<RevokedCertificate(7, 2, <<"reasonCode">>),
                                RevokedCertificate(12, 1, <<>>)>>)
CrlX == CrlPayload(OtherKey, <<RevokedCertificate(12, 2, <<>>)>>)

SampleRawCrls ==
    { <<>>,                                  \* the empty string
      <<OtherBytes>>,                        \* no PEM block at all
      <<PemBlock(MalformedPayload)>>,        \* a block that is no CRL
      <<PemBlock(CrlA)>>, <<PemBlock(CrlB)>>, <<PemBlock(CrlX)>>,
      <<PemBlock(CrlA), OtherBytes>>,        \* bytes after the block
      <<OtherBytes, PemBlock(CrlA)>> }       \* bytes before the block

Formats == { <<"p", "e", "m">>, <<"D", "E", "R">>, <<"x", "m", "l">> }
NextUpdates == {"1h", "0s", "soon"}
CrlNumbers == {-1, 0}
DeltaCrlBaseNumbers == {-2, -1, 0, 3}
IssuerRefs == {"", "default"}

\* The values the handler reads: the request's fields as data.Get returns
\* them (crls is the empty slice when the field is absent), and legacy, what
\* b.useLegacyBundleCaStorage() answers.
Request(legacy, fmt, nextUpdate, crlNumber, delta, issuerRef, crls) ==
    [legacy |-> legacy, format |-> fmt, next_update |-> nextUpdate,
     crl_number |-> crlNumber, delta_crl_base_number |-> delta,
     issuer_ref |-> issuerRef, crls |-> crls]

Requests ==
    { Request(l, f, n, c, d, i, r) :
        l \in BOOLEAN, f \in Formats, n \in NextUpdates, c \in CrlNumbers,
        d \in DeltaCrlBaseNumbers, i \in IssuerRefs,
        r \in SeqsUpTo(SampleRawCrls, MaxCrls) }

\* A request that passes every validation, for the single-stage specifications.
ValidRequest(crls) == Request(FALSE, Pem, "72h", 0, -1, "default", crls)

\* The issuer's bundle as getCaBundle returns it.
IssuerBundle ==
    [Certificate |-> [PublicKey |-> IssuerKey], PrivateKey |-> IssuerKey,
     RevocationSigAlg |-> "SHA256WithRSA"]

\* time.Now()
Clock == {100}

----------------------------------------------------------------------------
(* pathUpdateResignCrlsHandler, one action per stage.                      *)

Return(r) == pc' = "done" /\ resp' = r

\* The request-field checks in the handler's order, up to the issuer check:
\* the error response of the first that fails, None when all pass.
ValidationError(data) ==
    LET format == getCrlFormat(data.format)
        nextUpdateOffset == ParseDuration(data.next_update)
    IN  IF data.legacy
        THEN Some(ErrorResponse(Msg("This API cannot be used until the migration has completed", -1, <<>>)))
        ELSE IF format.err # None
        THEN Some(ErrorResponse(format.err[1]))
        ELSE IF nextUpdateOffset.err # None
        THEN Some(ErrorResponse(Msg("invalid value for %s: %v", -1, <<"next_update">>)))
        ELSE IF nextUpdateOffset.d <= 0
        THEN Some(ErrorResponse(Msg("%s parameter must be greater than 0", -1, <<"next_update">>)))
        ELSE IF data.crl_number < 0
        THEN Some(ErrorResponse(Msg("%s parameter must be 0 or greater", -1, <<"crl_number">>)))
        ELSE IF data.delta_crl_base_number < -1
        THEN Some(ErrorResponse(Msg("%s parameter must be -1 or greater", -1, <<"delta_crl_base_number">>)))
        ELSE IF getIssuerRef(data) = ""
        THEN Some(ErrorResponse(Msg("%s parameter cannot be blank", -1, <<"issuer_ref">>)))
        ELSE None

Validate ==
    /\ pc = "start"
    /\ IF ValidationError(req) # None
       THEN Return(ValidationError(req)[1])
       ELSE pc' = "decode" /\ resp' = resp
    /\ UNCHANGED <<req, cancelled, providedCrls, issuerId, caBundle, revokedCerts,
                   warnings, template, crlBytes>>

Decode ==
    /\ pc = "decode"
    /\ LET decoded == decodePemCrls(GetCrls(req))
       IN  IF decoded.panic
           THEN pc' = "panic" /\ UNCHANGED <<resp, providedCrls>>
           ELSE IF decoded.err # None
           THEN Return(ErrorResponse(decoded.err[1])) /\ UNCHANGED providedCrls
           ELSE /\ providedCrls' = Some(decoded.crls)
                /\ pc' = "resolve"
                /\ resp' = resp
    /\ UNCHANGED <<req, cancelled, issuerId, caBundle, revokedCerts, warnings, template,
                   crlBytes>>

\* The issuer id the storage resolves the reference to.
ResolvedIssuerId == "issuer-id"

\* b.makeStorageContext and getCaBundle's sc.resolveIssuerReference: the
\* storage resolves the reference to an issuer id, or fails (an unknown
\* reference, a storage error, a cancelled context).
Resolve ==
    /\ pc = "resolve"
    /\ \E found \in BOOLEAN :
         IF found
         THEN issuerId' = Some(ResolvedIssuerId) /\ pc' = "fetch" /\ resp' = resp
         ELSE /\ Return(ErrorResponse(Msg("failed to resolve issuer %s: %w", -1,
                                          <<"issuer_ref">>)))
              /\ UNCHANGED issuerId
    /\ UNCHANGED <<req, cancelled, providedCrls, caBundle, revokedCerts,
                   warnings, template, crlBytes>>

\* getCaBundle's sc.fetchCAInfoByIssuerId(issuerId, CRLSigningUsage): the
\* storage loads the bundle, or fails (a storage error, a cancelled context,
\* an issuer that may not sign CRLs) with that call's own error, which the
\* handler returns unwrapped.
Fetch ==
    /\ pc = "fetch"
    /\ \E loaded \in BOOLEAN :
         IF loaded
         THEN caBundle' = Some(IssuerBundle) /\ pc' = "verify" /\ resp' = resp
         ELSE /\ Return(ErrorResponse(Msg("fetchCAInfoByIssuerId: error", -1,
                                          issuerId)))
              /\ UNCHANGED caBundle
    /\ UNCHANGED <<req, cancelled, providedCrls, issuerId, revokedCerts,
                   warnings, template, crlBytes>>

Verify ==
    /\ pc = "verify"
    /\ LET err == verifyCrlsAreFromIssuersKey(caBundle[1].Certificate,
                                              providedCrls[1])
       IN  IF err # None
           THEN Return(ErrorResponse(err[1]))
           ELSE pc' = "merge" /\ resp' = resp
    /\ UNCHANGED <<req, cancelled, providedCrls, issuerId, caBundle, revokedCerts,
                   warnings, template, crlBytes>>

Merge ==
    /\ pc = "merge"
    /\ LET merged == getAllRevokedCerts(providedCrls[1])
       IN  IF merged.err # None
           THEN Return(ErrorResponse(merged.err[1]))
                    /\ UNCHANGED <<revokedCerts, warnings>>
           ELSE /\ \E order \in MapOrders(merged.uniqueCert) :
                       revokedCerts' = Some(order)
                /\ warnings' = merged.warnings
                /\ pc' = "build"
                /\ resp' = resp
    /\ UNCHANGED <<req, cancelled, providedCrls, issuerId, caBundle, template, crlBytes>>

\* certutil.CreateDeltaCRLIndicatorExt
CreateDeltaCRLIndicatorExt(n) ==
    [Id |-> "id-ce-deltaCRLIndicator", Critical |-> TRUE, Value |-> n]

\* The mutant: the indicator only for a base number above zero.
NeedsDeltaIndicator_Positive(deltaCrlBaseNumber) == deltaCrlBaseNumber > 0

\* if deltaCrlBaseNumber > -1
NeedsDeltaIndicator(deltaCrlBaseNumber) == deltaCrlBaseNumber > -1

Build ==
    /\ pc = "build"
    /\ \E now \in Clock, extOk \in BOOLEAN :
         LET base == [SignatureAlgorithm |-> caBundle[1].RevocationSigAlg,
                      RevokedCertificates |-> revokedCerts[1],
                      Number |-> req.crl_number,
                      ThisUpdate |-> now,
                      NextUpdate |-> now + ParseDuration(req.next_update).d,
                      ExtraExtensions |-> <<>>]
         IN  IF NeedsDeltaIndicator(req.delta_crl_base_number)
             THEN IF extOk
                  THEN /\ template' = Some([base EXCEPT !.ExtraExtensions =
                              <<CreateDeltaCRLIndicatorExt(req.delta_crl_base_number)>>])
                       /\ pc' = "sign"
                       /\ resp' = resp
                  ELSE /\ template' = Some(base)
                       /\ Return(InternalError(Msg("could not create crl delta indicator extension: %v", -1, <<>>)))
             ELSE /\ extOk
                  /\ template' = Some(base)
                  /\ pc' = "sign"
                  /\ resp' = resp
    /\ UNCHANGED <<req, cancelled, providedCrls, issuerId, caBundle, revokedCerts,
                   warnings, crlBytes>>

\* x509.CreateRevocationList: the template signed with the issuer's key.
CreateRevocationList(tmpl, issuer, priv) ==
    [wellFormed |-> TRUE, Signer |-> priv, Issuer |-> issuer,
     RevokedCertificates |-> tmpl.RevokedCertificates,
     Number |-> tmpl.Number, ThisUpdate |-> tmpl.ThisUpdate,
     NextUpdate |-> tmpl.NextUpdate, Extensions |-> tmpl.ExtraExtensions]

Sign ==
    /\ pc = "sign"
    /\ \E signed \in BOOLEAN :
         IF signed
         THEN /\ crlBytes' = Some(CreateRevocationList(template[1],
                                    caBundle[1].Certificate, caBundle[1].PrivateKey))
              /\ pc' = "encode"
              /\ resp' = resp
         ELSE /\ Return(InternalError(Msg("error creating new CRL: %w", -1, <<>>)))
              /\ UNCHANGED crlBytes
    /\ UNCHANGED <<req, cancelled, providedCrls, issuerId, caBundle, revokedCerts,
                   warnings, template>>

Encode ==
    /\ pc = "encode"
    /\ Return(CrlResponse(warnings,
                          encodeResponse(crlBytes[1],
                                         getCrlFormat(req.format).format = Der)))
    /\ UNCHANGED <<req, cancelled, providedCrls, issuerId, caBundle, revokedCerts,
                   warnings, template, crlBytes>>

\* The caller cancels the request's context while the handler runs.
Cancel ==
    /\ pc \notin {"done", "panic"}
    /\ ~cancelled
    /\ cancelled' = TRUE
    /\ UNCHANGED <<req, pc, providedCrls, issuerId, caBundle, revokedCerts, warnings,
                   template, crlBytes, resp>>

Locals0 ==
    /\ cancelled = FALSE
    /\ providedCrls = None
    /\ issuerId = None
    /\ caBundle = None
    /\ revokedCerts = None
    /\ warnings = <<>>
    /\ template = None
    /\ crlBytes = None
    /\ resp = NotReturned

Init ==
    /\ req \in Requests
    /\ pc = "start"
    /\ Locals0

Next ==
    \/ Validate
    \/ Decode
    \/ Resolve
    \/ Fetch
    \/ Verify
    \/ Merge
    \/ Build
    \/ Sign
    \/ Encode
    \/ Cancel

Spec == Init /\ [][Next]_vars

----------------------------------------------------------------------------
(* getAllRevokedCerts on its own: the handler at the merge, with every     *)
(* sequence of verified CRLs within the bounds.                            *)

\* The ways to cut n entries into k consecutive CRLs: the end of each CRL.
Cuts(n, k) ==
    {c \in [1..k -> 0..n] :
        /\ \A i \in 1..k : i < k => c[i] <= c[i + 1]
        /\ k > 0 => c[k] = n}

CutAt(flat, c) ==
    [i \in DOMAIN c |->
        RevocationList(IssuerKey,
                       SubSeq(flat, (IF i = 1 THEN 0 ELSE c[i - 1]) + 1, c[i]))]

\* The CRL string a parsed CRL was decoded from.
RawOf(crl) == <<PemBlock(CrlPayload(crl.Signer, crl.RevokedCertificates))>>

InitMerge ==
    /\ \E flat \in SeqsUpTo(InputCerts, MaxEntries) :
         \E k \in (IF flat = <<>> THEN 0 ELSE 1)..MaxCrls :
           \E c \in Cuts(Len(flat), k) :
             LET crls == CutAt(flat, c)
             IN  /\ providedCrls = Some(crls)
                 /\ req = ValidRequest([i \in DOMAIN crls |-> RawOf(crls[i])])
    /\ pc = "merge"
    /\ cancelled = FALSE
    /\ issuerId = Some(ResolvedIssuerId)
    /\ caBundle = Some(IssuerBundle)
    /\ revokedCerts = None
    /\ warnings = <<>>
    /\ template = None
    /\ crlBytes = None
    /\ resp = NotReturned

SpecMerge == InitMerge /\ [][Merge]_vars

----------------------------------------------------------------------------
(* decodePemCrls on its own: the handler at the decoding, with every       *)
(* sequence of CRL strings within the bounds.                              *)

Tokens == {OtherBytes, PemBlock(MalformedPayload), PemBlock(CrlA)}

RawCrlStrings == SeqsUpTo(Tokens, MaxTokens)

InitDecode ==
    /\ \E rawCrls \in SeqsUpTo(RawCrlStrings, MaxCrls) :
         req = ValidRequest(rawCrls)
    /\ pc = "decode"
    /\ Locals0

SpecDecode == InitDecode /\ [][Decode]_vars

----------------------------------------------------------------------------
(* Properties of the merge (SpecMerge).                                    *)

MapValues(m) == {m[k] : k \in DOMAIN m}

RECURSIVE FlatCerts(_)
FlatCerts(crls) ==
    IF crls = <<>> THEN <<>>
    ELSE Head(crls).RevokedCertificates \o FlatCerts(Tail(crls))

SerialTime(certs) == {<<c.SerialNumber, c.RevocationTime>> : c \in certs}

TimesOf(certs, serial) ==
    {c.RevocationTime : c \in {d \in certs : d.SerialNumber = serial}}

Perms(n) == {f \in [1..n -> 1..n] : \A i, j \in 1..n : f[i] = f[j] => i = j}

Merged == revokedCerts # None

\* C1: the merged entries hold exactly the serials of the inputs, one entry
\* per serial, each at the earliest revocation time any input gives that
\* serial; every reordering of the input CRLs merges to the same set.
C1_EarliestPerSerial ==
    Merged =>
        LET crls == providedCrls[1]
            inputs == Range(FlatCerts(crls))
            out == revokedCerts[1]
        IN  /\ {c.SerialNumber : c \in Range(out)} = {c.SerialNumber : c \in inputs}
            /\ \A i, j \in DOMAIN out :
                   out[i].SerialNumber = out[j].SerialNumber => i = j
            /\ \A c \in Range(out) :
                   c.RevocationTime = Min(TimesOf(inputs, c.SerialNumber))
            /\ \A f \in Perms(Len(crls)) :
                   SerialTime(MapValues(getAllRevokedCerts(
                       [i \in DOMAIN crls |-> crls[f[i]]]).uniqueCert))
                       = SerialTime(Range(out))

\* Two CRLs, the first revoking a serial later than the second does, and a
\* second serial: merged to two entries.
C1_Witness ==
    /\ Merged
    /\ Len(providedCrls[1]) = 2
    /\ Len(revokedCerts[1]) = 2
    /\ \E s \in Serials :
         /\ 2 \in TimesOf(Range(providedCrls[1][1].RevokedCertificates), s)
         /\ 1 \in TimesOf(Range(providedCrls[1][2].RevokedCertificates), s)
         /\ <<s, 1>> \in SerialTime(Range(revokedCerts[1]))

SameCrlTwice ==
    /\ Merged
    /\ Len(providedCrls[1]) = 2
    /\ providedCrls[1][1] = providedCrls[1][2]

\* No serial is listed in the CRL at two different revocation times.
ConflictFree(crl) ==
    \A s \in Serials : Cardinality(TimesOf(Range(crl.RevokedCertificates), s)) <= 1

MergedOnce(crl) == MapValues(getAllRevokedCerts(<<crl>>).uniqueCert)

\* C6 as stated: a CRL supplied twice merges to the set it merges to when
\* supplied once, with zero warnings.
C6_Original ==
    SameCrlTwice =>
        /\ SerialTime(Range(revokedCerts[1])) = SerialTime(MergedOnce(providedCrls[1][1]))
        /\ warnings = <<>>

\* C6 as amended: a CRL supplied twice merges to the set it merges to when
\* supplied once; there are zero warnings when the CRL lists no serial at
\* two different revocation times.
C6_Amended ==
    SameCrlTwice =>
        /\ SerialTime(Range(revokedCerts[1])) = SerialTime(MergedOnce(providedCrls[1][1]))
        /\ ConflictFree(providedCrls[1][1]) => warnings = <<>>

\* A CRL of two entries, none conflicting, supplied twice.
C6_Witness ==
    /\ SameCrlTwice
    /\ ConflictFree(providedCrls[1][1])
    /\ Len(providedCrls[1][1].RevokedCertificates) = 2
    /\ Len(revokedCerts[1]) = 2
    /\ warnings = <<>>

\* The positions of the entries, in input order, that meet their serial
\* already kept at another revocation time.
ConflictPositions(flat) ==
    {j \in DOMAIN flat :
        LET earlier == {flat[i] : i \in {k \in 1..(j - 1) :
                            flat[k].SerialNumber = flat[j].SerialNumber}}
        IN  /\ earlier # {}
            /\ flat[j].RevocationTime
                   # Min({c.RevocationTime : c \in earlier})}

NthOf(S, n) == CHOOSE p \in S : Cardinality({q \in S : q <= p}) = n

\* C7: the merge never fails; every entry that meets its serial already kept
\* at a different revocation time adds one warning naming the serial, in
\* input order, whichever time is earlier; two CRLs that each revoke a
\* serial once, at different times, give exactly one warning naming it and
\* keep the earlier time.
C7_ConflictWarns ==
    Merged =>
        LET crls == providedCrls[1]
            flat == FlatCerts(crls)
            conflicts == ConflictPositions(flat)
        IN  /\ pc = "build" /\ resp = NotReturned
            /\ Len(warnings) = Cardinality(conflicts)
            /\ \A n \in DOMAIN warnings :
                   warnings[n] = DuplicateWarning(
                       serialFromBigInt(flat[NthOf(conflicts, n)].SerialNumber))
            /\ \A s \in Serials, t1, t2 \in Times :
                   (/\ Len(crls) = 2
                    /\ t1 # t2
                    /\ \A k \in 1..2 :
                         Cardinality({i \in DOMAIN crls[k].RevokedCertificates :
                             crls[k].RevokedCertificates[i].SerialNumber = s}) = 1
                    /\ TimesOf(Range(crls[1].RevokedCertificates), s) = {t1}
                    /\ TimesOf(Range(crls[2].RevokedCertificates), s) = {t2})
                   => /\ Cardinality({n \in DOMAIN warnings :
                             warnings[n].arg = serialFromBigInt(s)}) = 1
                      /\ <<s, Min({t1, t2})>> \in SerialTime(Range(revokedCerts[1]))

\* Serial 12 revoked at 1 by the first CRL and at 2 by the second: the kept
\* entry is not replaced, and the conflict is still warned of.
C7_Witness ==
    /\ Merged
    /\ Len(providedCrls[1]) = 2
    /\ providedCrls[1][1].RevokedCertificates = <<RevokedCertificate(12, 1, <<>>)>>
    /\ providedCrls[1][2].RevokedCertificates = <<RevokedCertificate(12, 2, <<>>)>>
    /\ warnings = <<DuplicateWarning(<<"1", "2">>)>>
    /\ revokedCerts[1] = <<RevokedCertificate(12, 1, <<>>)>>

----------------------------------------------------------------------------
(* Properties of the handler (Spec).                                       *)

Returned == pc = "done"

IsErrorResponse(r) ==
    /\ r.err = None
    /\ r.response # None
    /\ DOMAIN r.response[1].Data = {"error"}

IsInternalError(r) == r.response = None /\ r.err # None

CarriesCrl(r) == r.response # None /\ "crl" \in DOMAIN r.response[1].Data

\* The (1-based) indexes of the decoded CRLs the issuer's key did not sign.
FailingCrls ==
    {i \in DOMAIN providedCrls[1] :
        providedCrls[1][i].Signer # caBundle[1].Certificate.PublicKey}

\* C2: once the CRLs are decoded and the issuer fetched, a CRL that fails
\* verification stops the handler at the verification: nothing is merged,
\* built or signed, and the handler returns an error response naming the
\* 0-based index of the first failing CRL.
C2_VerificationGate ==
    (providedCrls # None /\ caBundle # None /\ FailingCrls # {}) =>
        /\ pc \in {"verify", "done"}
        /\ revokedCerts = None
        /\ warnings = <<>>
        /\ template = None
        /\ crlBytes = None
        /\ Returned => resp = ErrorResponse(NotSignedByIssuer(Min(FailingCrls) - 1))

\* A CRL of the issuer followed by a CRL of another key: rejected, naming
\* index 1.
C2_Witness ==
    /\ Returned
    /\ providedCrls # None
    /\ caBundle # None
    /\ Len(providedCrls[1]) = 2
    /\ FailingCrls = {2}
    /\ providedCrls[1][1].RevokedCertificates # <<>>
    /\ resp = ErrorResponse(NotSignedByIssuer(1))

UnknownFormat == ToLower(req.format) # Pem /\ ToLower(req.format) # Der

\* C4: a request whose format is neither "pem" nor "der", whatever its
\* case, never gets past the validation: nothing is decoded, fetched,
\* verified, merged or signed, and what is returned is an error response
\* (the unknown-format one, unless the legacy-storage check came first).
C4_UnknownFormatRejectedFirst ==
    UnknownFormat =>
        /\ pc \in {"start", "done"}
        /\ providedCrls = None
        /\ issuerId = None
        /\ caBundle = None
        /\ revokedCerts = None
        /\ template = None
        /\ crlBytes = None
        /\ Returned =>
             /\ IsErrorResponse(resp)
             /\ ~req.legacy =>
                  resp = ErrorResponse(Msg("unknown format value of %s", -1, req.format))

\* format "xml" on a request that is valid otherwise and carries two CRLs.
C4_Witness ==
    /\ Returned
    /\ req.format = <<"x", "m", "l">>
    /\ ~req.legacy
    /\ req.next_update = "1h"
    /\ req.crl_number = 0
    /\ req.delta_crl_base_number = -1
    /\ req.issuer_ref = "default"
    /\ req.crls = << <<PemBlock(CrlA)>>, <<PemBlock(CrlB)>> >>
    /\ IsErrorResponse(resp)

\* C5 as stated: once the context is cancelled the handler stops at the
\* next CRL it would decode (it hands no decoded CRLs on), and never signs.
C5_CancellationStops ==
    /\ [][(cancelled /\ pc = "decode" /\ GetCrls(req) # <<>>)
             => (pc' # "resolve" /\ providedCrls' = None)]_vars
    /\ [][(cancelled /\ pc = "sign") => crlBytes' = None]_vars

\* C8 as stated: whenever the handler ends without a CRL it has returned,
\* an internal error when the extension or the signing failed, an error
\* response with a nil error otherwise, and nothing that carries a "crl".
C8_FailuresClassified ==
    (pc \in {"done", "panic"} /\ ~(Returned /\ CarriesCrl(resp))) =>
        /\ Returned
        /\ ~CarriesCrl(resp)
        /\ IF template # None
           THEN IsInternalError(resp)
           ELSE IsErrorResponse(resp)

\* The template has been handed to x509.CreateRevocationList.
TemplateHandedToSigner ==
    /\ template # None
    /\ ~(Returned /\ resp.err # None /\ crlBytes = None
           /\ resp.err[1].text = "could not create crl delta indicator extension: %v")

\* C9: the template handed to the signer has no extra extension when
\* delta_crl_base_number is -1 and exactly one, the Delta CRL Indicator of
\* that base number, when it is 0 or more; the signed CRL carries the
\* template's extensions; a base number below -1 is rejected with an error
\* response before anything is decoded or built.
C9_DeltaIndicatorBoundary ==
    LET delta == req.delta_crl_base_number
    IN  /\ TemplateHandedToSigner =>
              IF delta = -1
              THEN template[1].ExtraExtensions = <<>>
              ELSE /\ delta >= 0
                   /\ Len(template[1].ExtraExtensions) = 1
                   /\ template[1].ExtraExtensions[1].Id = "id-ce-deltaCRLIndicator"
                   /\ template[1].ExtraExtensions[1].Value = delta
        /\ crlBytes # None => crlBytes[1].Extensions = template[1].ExtraExtensions
        /\ delta < -1 =>
              /\ pc \in {"start", "done"}
              /\ providedCrls = None
              /\ template = None
              /\ crlBytes = None
              /\ Returned => IsErrorResponse(resp)

\* A CRL signed for base number 0: one indicator extension, of value 0.
C9_Witness ==
    /\ Returned
    /\ CarriesCrl(resp)
    /\ req.delta_crl_base_number = 0
    /\ Len(crlBytes[1].Extensions) = 1
    /\ crlBytes[1].Extensions[1].Value = 0

\* C10 as stated: a request with no input CRLs (the handler reads an empty
\* slice) is rejected with an error response and nothing is signed for it.
C10_CrlsRequired ==
    GetCrls(req) = <<>> =>
        /\ pc \notin {"sign", "encode"}
        /\ crlBytes = None
        /\ Returned => IsErrorResponse(resp)

----------------------------------------------------------------------------
(* Properties of the decoding (SpecDecode).                                *)

\* The string is exactly one PEM block whose payload is a revocation list.
ExactlyOneWellFormedBlock(raw) ==
    Len(raw) = 1 /\ raw[1].isBlock /\ raw[1].Bytes.wellFormed

\* C3 as stated: decodePemCrls returns one CRL per string, in order, or an
\* error response naming the 0-based index of the first string that is not
\* exactly one well-formed block, with nothing decoded; it never panics.
C3_DecodeTotal ==
    pc # "decode" =>
        LET rawCrls == GetCrls(req)
            bad == {i \in DOMAIN rawCrls : ~ExactlyOneWellFormedBlock(rawCrls[i])}
        IN  IF bad = {}
            THEN /\ pc = "resolve"
                 /\ providedCrls = Some([i \in DOMAIN rawCrls |->
                        RevocationList(rawCrls[i][1].Bytes.Signer,
                                       rawCrls[i][1].Bytes.RevokedCertificates)])
            ELSE /\ Returned
                 /\ IsErrorResponse(resp)
                 /\ resp.response[1].Data["error"].index = Min(bad) - 1
                 /\ providedCrls = None

====
